---- MODULE Spec2Model ----
(***************************************************************************)
(* drops.tf: the stats cache of DataSource (src/src/data.rs).              *)
(*                                                                         *)
(* DataSource holds three moka::future::Cache instances (global_cache,     *)
(* top_cache, player_cache), each built with time_to_live 15 min and       *)
(* time_to_idle 5 min.  global_stats, top_stats and stats_for_user go      *)
(* through Cache::try_get_with(key, init): a fast-path read, then the      *)
(* per-key waiter registry (one caller evaluates its init future, the      *)
(* others read that waiter's value), the insert on Ok, nothing on Err.     *)
(* Callers are asynchronous tasks; a caller that is dropped at an await    *)
(* point abandons its request.                                             *)
(***************************************************************************)
EXTENDS Integers, FiniteSets, Sequences, TLC

\* ---------------------------------------------------------------- bounds
MaxCallers == 3
MaxCalls == 3
MaxKeys == 3
MaxClockCalls == 5
MaxStoreCalls == 2
MaxFairCalls == 2
MaxCandidates == 3
MaxVanityCallers == 2
MaxVanityCalls == 2
MaxAccount == 1
MaxInstance == 2
MaxCapCalls == 4
MaxNew == 2
MaxFreq == 3
MaxKeyCalls == 2
MaxPageCalls == 2
Granule == 225

\* ------------------------------------------------------------- constants
TimeToLive == 15 * 60
TimeToIdle == 5 * 60
MinDrops == 100
Limit == 50
MaxCapacity == 1024

Min(a, b) == IF a < b THEN a ELSE b

Procs == 1..MaxCallers
TopOrder == {"Drops", "Dps", "Dpg", "Dpu"}

GlobalKey == [cache |-> "global"]
TopKey(order) == [cache |-> "top", order |-> order]
PlayerKey(id) == [cache |-> "player", steam_id |-> id]

\* the keys the callers ask for: the first MaxKeys of a list that goes round the
\* three caches
KeyList ==
    <<GlobalKey, TopKey("Drops"), PlayerKey(1), TopKey("Dps"), PlayerKey(2),
      PlayerKey(3), TopKey("Dpg"), PlayerKey(4), TopKey("Dpu")>>
Keys == {KeyList[i] : i \in 1..Min(MaxKeys, Len(KeyList))}
Orders == {o \in TopOrder : TopKey(o) \in Keys}
Players == {i \in 1..4 : PlayerKey(i) \in Keys}

VARIABLES
    db,         \* the relational store: ranked_medic_stats, medic_stats, user_names
    cache,      \* the three caches, by key: the resident entry of each key
    waiters,    \* moka's waiter registry: the caller whose waiter is installed for a key, 0 if none
    pc,         \* each caller's position inside its call
    key,        \* each caller's key
    cell,       \* the value of the waiter a waiting caller reads
    result,     \* each caller's outcome
    trace,      \* the store queries a caller issued in its current call, with their outcomes
    calls,      \* calls started so far
    execs,      \* per key: init futures that started to run
    fails,      \* per key: init futures that returned Err
    cancels,    \* per key: init futures dropped with their caller
    user_names,     \* the name table, by identity: no row, a row without a name, a row with one
    medic_names,    \* the rows of the name history that match the search text, as the store returns them
    search,         \* the text handed to player_search
    search_pc,      \* player_search's position
    search_result,  \* player_search's outcome
    search_log,     \* the store queries player_search issued, with their outcomes
    vanity_urls,    \* the vanity mapping table: its rows, in the order a plain SELECT returns them
    vanity_pc,      \* each caller's position inside resolve_vanity_url
    vanity_call,    \* each caller's call, by serial number
    vanity_log,     \* the calls of resolve_vanity_url, by serial number: token, steps, outcome
    id_text,        \* the text handed to SteamId::from_str
    id_pc,          \* the position in the chain of conversions
    id_parsed,      \* from_str(text)
    id_steam3,      \* steam3() of it
    id_again,       \* from_str of that rendering
    id_u64,         \* u64::from of the parsed identity
    id_back,        \* SteamId::from of that number
    player_map,     \* the per-player cache: the identities in its hash map
    player_lru,     \* the identities its policy has admitted, least recently used first
    player_freq,    \* its popularity estimate of each identity
    player_writes,  \* inserted identities that wait for the policy to be applied
    top_map,        \* the leaderboard cache: the orderings in it
    global_map,     \* the global cache: the keys in it
    cap_calls,      \* calls made so far
    page            \* the page_player request under way: its position, the
                    \* path text, the identity found and the response

cachevars == <<db, cache, waiters, pc, key, cell, result, trace, calls, execs, fails, cancels>>
searchvars == <<user_names, medic_names, search, search_pc, search_result, search_log>>
vanityvars == <<vanity_urls, vanity_pc, vanity_call, vanity_log>>
idvars == <<id_text, id_pc, id_parsed, id_steam3, id_again, id_u64, id_back>>
capvars == <<player_map, player_lru, player_freq, player_writes, top_map, global_map, cap_calls>>
pagevars == <<page>>
\* everything outside the three caches
side == <<searchvars, vanityvars, idvars, capvars, pagevars>>

vars == <<cachevars, side>>


\* ------------------------------------------------------------- the store
\* A row of ranked_medic_stats (the precomputed view, its four ranks
\* materialized) and a row of medic_stats.
RankedRow(id, drops, dpu, dps, dpg, rank) ==
    [steam_id |-> id, drops |-> drops, dpu |-> dpu, dps |-> dps, dpg |-> dpg,
     games |-> 10 + id, ubers |-> 20 + id, medic_time |-> 30 + id,
     drops_rank |-> rank, dpu_rank |-> rank, dps_rank |-> rank, dpg_rank |-> rank]
StatsRow(id, drops, dpu, dps, dpg) ==
    [steam_id |-> id, drops |-> drops, dpu |-> dpu, dps |-> dps, dpg |-> dpg,
     games |-> 10 + id, ubers |-> 20 + id, medic_time |-> 30 + id]
\* user_names.name of a player that has one
NameOf(id) == <<"name", id>>

\* Player 1 is below the threshold (raw row only), player 2 has no row
\* anywhere, player 3 is in the view, player 4 has a raw row and no name.
BaseDb ==
    [ranked |-> {RankedRow(3, 150, 2, 2, 2, 1)},
     stats  |-> {StatsRow(1, 50, 2, 1, 3), StatsRow(3, 150, 2, 2, 2), StatsRow(4, 60, 1, 1, 1)},
     names  |-> {1, 3}]

\* The stores of the player-stats runs: the subject (player 1) with or without
\* a view row, a raw row and a name; up to two other players in the ranked set,
\* at or above the 100-drop threshold.
Opt(S) == {{}} \cup {{x} : x \in S}
OtherRows(id) == {RankedRow(id, dr, u, s, 2, 1) : dr \in {100, 150}, u \in {1, 2}, s \in {1, 2}}
SubjectRows == {StatsRow(1, dr, u, s, g) : dr \in {50, 150}, u \in {1, 2}, s \in {1, 2}, g \in {1, 2}}
StoreDbs ==
    {[ranked |-> r1 \cup r2 \cup v, stats |-> st, names |-> n] :
        r1 \in Opt(OtherRows(11)), r2 \in Opt(OtherRows(12)),
        v \in Opt({RankedRow(1, 150, 2, 2, 2, 2)}),
        st \in Opt(SubjectRows), n \in SUBSET {1}}

\* variant: the count includes the rows equal on the metric
RankOfInclusive(d, metric, v) ==
    Cardinality({m2 \in d.ranked : m2[metric] >= v /\ m2.drops > MinDrops}) + 1

\* variant: the count takes the rows below the threshold as well
RankOfUnfiltered(d, metric, v) ==
    Cardinality({m2 \in d.ranked : m2[metric] > v}) + 1

\* SELECT COUNT( * ) FROM ranked_medic_stats m2 WHERE m2.<metric> > <v> AND m2.drops > 100, + 1
RankOf(d, metric, v) ==
    Cardinality({m2 \in d.ranked : m2[metric] > v /\ m2.drops > MinDrops}) + 1

\* fetch_one of the ranked view: the rows WHERE steam_id = id, as DropStats
CheapRows(d, id) ==
    {[steam_id |-> r.steam_id, name |-> NameOf(r.steam_id),
      games |-> r.games, ubers |-> r.ubers, drops |-> r.drops, medic_time |-> r.medic_time,
      drops_rank |-> r.drops_rank, dpu_rank |-> r.dpu_rank,
      dps_rank |-> r.dps_rank, dpg_rank |-> r.dpg_rank] :
        r \in {r \in d.ranked : r.steam_id = id}}

\* fetch_one of medic_stats INNER JOIN user_names, with the four counting
\* subqueries, as DropStats
ExpensiveRows(d, id) ==
    {[steam_id |-> s.steam_id, name |-> NameOf(s.steam_id),
      games |-> s.games, ubers |-> s.ubers, drops |-> s.drops, medic_time |-> s.medic_time,
      drops_rank |-> RankOf(d, "drops", s.drops),
      dpu_rank |-> RankOf(d, "dpu", s.dpu),
      dps_rank |-> RankOf(d, "dps", s.dps),
      dpg_rank |-> RankOf(d, "dpg", s.dpg)] :
        s \in {s \in d.stats : s.steam_id = id /\ s.steam_id \in d.names}}

\* ------------------------------------------------------------- the search
\* The texts handed to player_search, and what SteamId::from_str makes of them.
SearchTexts == {"[U:1:1]", "STEAM_0:0:1", "foo"}
Parses(text) == text \in {"[U:1:1]", "STEAM_0:0:1"}
Parsed(text) == IF text = "[U:1:1]" THEN 1 ELSE 2
SearchIds == {Parsed(t) : t \in {t \in SearchTexts : Parses(t)}}

\* A SearchResult.  sim is kept in hundredths (0.95 is 95), so that weight is
\* in hundredths too.
SearchResult(id, name, count, sim) == [steam_id |-> id, name |-> name, count |-> count, sim |-> sim]

\* SearchResult::weight: self.sim * 5.0 + self.count as f64
Weight(r) == r.sim * 5 + r.count * 100

\* rows of medic_names
NameRows ==
    {SearchResult(1, "Foo", 5, 90), SearchResult(1, "foo", 1, 95),
     SearchResult(2, "Foobar", 100, 50), SearchResult(3, "Fool", 7, 20),
     SearchResult(1, "FOO", 6, 70), SearchResult(2, "Foot", 5, 90)}

\* what fetch_all can return: distinct rows, ORDER BY count DESC (rows equal on
\* count in any order), LIMIT 50
Fetches ==
    {f \in UNION {[1..n -> NameRows] : n \in 0..Min(MaxCandidates, Limit)} :
        /\ \A i, j \in DOMAIN f : i < j => f[i] # f[j]
        /\ \A i, j \in DOMAIN f : i < j => f[i].count >= f[j].count}

\* variant: the rows stay in the store's order
Unsorted(s) == s

\* players.sort_by(|a, b| b.weight().partial_cmp(&a.weight()).unwrap()): a
\* stable sort, weight descending; each row goes behind the rows already placed
\* that weigh at least as much
RECURSIVE SortByWeight(_)
SortByWeight(s) ==
    IF s = <<>> THEN <<>>
    ELSE LET front == SortByWeight(SubSeq(s, 1, Len(s) - 1))
             r == s[Len(s)]
             k == Cardinality({i \in 1..Len(front) : Weight(front[i]) >= Weight(r)})
         IN SubSeq(front, 1, k) \o <<r>> \o SubSeq(front, k + 1, Len(front))

\* .filter(|player| ...): a row passes unless its steam_id was found before
RECURSIVE Dedup(_, _)
Dedup(s, found) ==
    IF s = <<>> THEN <<>>
    ELSE IF Head(s).steam_id \in found THEN Dedup(Tail(s), found)
    ELSE <<Head(s)>> \o Dedup(Tail(s), found \cup {Head(s).steam_id})

SearchOk(v) == [kind |-> "Ok", value |-> v]
SearchErr(e) == [kind |-> "Err", variant |-> "Database", cause |-> e]

\* no search under way
SearchIdle ==
    /\ user_names = [i \in SearchIds |-> "none"]
    /\ medic_names = <<>>
    /\ search = ""
    /\ search_pc = "idle"
    /\ search_result = [kind |-> "None"]
    /\ search_log = <<>>

\* ------------------------------------------------------------- vanity names
VanityProcs == 1..MaxVanityCallers
VanityTokens == {"gabe", "nobody"}

\* what steam_resolve_vanity::resolve_vanity_url answers for a token when the
\* service answers: the identity behind the name, 0 for no match
SteamApi(token) == IF token = "gabe" THEN 1 ELSE 0

VanityRow(url, id) == [url |-> url, steam_id |-> id]
VanityRowsOf(url) == {i \in DOMAIN vanity_urls : vanity_urls[i].url = url}
VanityOk(v) == [kind |-> "Ok", value |-> v]
VanityErr(variant) == [kind |-> "Err", variant |-> variant]

\* no call of resolve_vanity_url was made
VanityIdle ==
    /\ vanity_urls = <<>>
    /\ vanity_pc = [p \in VanityProcs |-> "idle"]
    /\ vanity_call = [p \in VanityProcs |-> 0]
    /\ vanity_log = <<>>

\* ------------------------------------------------------------- identities
\* A 64-bit identity is written by its four bit fields: universe (bits 56..63),
\* account type (52..55), instance (32..51) and account number (0..31).
Bits(universe, type, instance, account) ==
    [universe |-> universe, type |-> type, instance |-> instance, account |-> account]

Universes == {0, 1}         \* Invalid, Public
AccountTypes == {0, 1, 4, 7}    \* Invalid, Individual, AnonGameServer, Clan
Instances == 0..MaxInstance     \* All, Desktop, Console
Accounts == 0..MaxAccount

\* the texts: a decimal number (written by the fields of its value), the legacy
\* colon form STEAM_u:a:n, the bracketed form [c:u:n] or [c:u:n:i], and a text
\* of no notation
NoInstance == 0 - 1
IdTexts ==
    {[form |-> "u64", value |-> Bits(u, t, i, a)] :
        u \in Universes, t \in AccountTypes, i \in Instances, a \in Accounts}
    \cup {[form |-> "steam2", universe |-> u, auth |-> b, number |-> n] :
        u \in Universes, b \in {0, 1}, n \in Accounts}
    \cup {[form |-> "steam3", char |-> c, universe |-> u, account |-> a, instance |-> i] :
        c \in {"I", "U", "A", "g"}, u \in Universes, a \in Accounts,
        i \in Instances \cup {NoInstance}}
    \cup {[form |-> "other"]}

\* steamid_ng's letter of an account type, and back
TypeChar(type) ==
    CASE type = 1 -> "U" [] type = 4 -> "A" [] type = 7 -> "g" [] OTHER -> "I"
CharType(char) ==
    CASE char = "U" -> 1 [] char = "A" -> 4 [] char = "g" -> 7 [] OTHER -> 0

SteamId(n) == [id |-> n]
\* no number, no identity
NoBits == Bits(0 - 1, 0 - 1, 0 - 1, 0 - 1)
NoId == SteamId(NoBits)

\* SteamId::steam3: SteamID::from(self.0).steam3().  The instance is written
\* for anonymous game servers (and multiseat accounts), and for an individual
\* account whose instance is not Desktop.
Steam3(id) ==
    LET b == id.id
        render == b.type = 4 \/ (b.type = 1 /\ b.instance # 1)
    IN
    [form |-> "steam3", char |-> TypeChar(b.type), universe |-> b.universe,
     account |-> b.account, instance |-> IF render THEN b.instance ELSE NoInstance]

\* SteamID::from_steam3: where the text has no instance, an individual account
\* gets Desktop, a clan gets All, and the other letters get the library's
\* default, given as dflt
FromSteam3(text, dflt) ==
    LET instance ==
            IF text.instance # NoInstance THEN text.instance
            ELSE CASE text.char = "U" -> 1 [] text.char = "g" -> 0 [] OTHER -> dflt
    IN SteamId(Bits(text.universe, CharType(text.char), instance, text.account))

\* SteamId::from_str: SteamID::try_from(s).  A text of digits is taken as the
\* 64-bit value it writes, whatever its fields; the legacy form gives an
\* individual account, Desktop, universe 0 read as Public; then the bracketed form.
FromStr(text, dflt) ==
    CASE text.form = "u64" -> SteamId(text.value)
      [] text.form = "steam2" ->
            SteamId(Bits(IF text.universe = 0 THEN 1 ELSE text.universe, 1, 1,
                         text.number * 2 + text.auth))
      [] text.form = "steam3" -> FromSteam3(text, dflt)
      [] OTHER -> NoId

\* impl From<SteamId> for u64: id.0
IntoU64(id) == id.id
\* impl From<u64> for SteamId: SteamId(id)
FromU64(n) == SteamId(n)

\* no conversion under way
IdIdle ==
    /\ id_text = [form |-> "other"]
    /\ id_pc = "idle"
    /\ id_parsed = NoId /\ id_steam3 = [form |-> "other"] /\ id_again = NoId
    /\ id_u64 = NoBits /\ id_back = NoId

\* ------------------------------------------------------------- capacity
\* the identities asked for: the two that were used least recently, and new ones
CapIds == {1, 2} \cup (MaxCapacity + 1)..(MaxCapacity + MaxNew)
Range(f) == {f[i] : i \in DOMAIN f}
Without(seq, x) == LET Keep(y) == y # x IN SelectSeq(seq, Keep)

\* the caches hold nothing
CapIdle ==
    /\ player_map = {} /\ player_lru = <<>> /\ player_writes = <<>>
    /\ player_freq = [i \in CapIds |-> 0]
    /\ top_map = {} /\ global_map = {}
    /\ cap_calls = 0

\* no page_player request yet
NoResponse == [kind |-> "None", variant |-> "-", status |-> 0]
PageIdle ==
    page = [pc |-> "idle", text |-> "", id |-> 0, response |-> NoResponse,
            count |-> 0, lookups |-> 0, stats |-> 0]

SideIdle == SearchIdle /\ VanityIdle /\ IdIdle /\ CapIdle /\ PageIdle

\* ------------------------------------------------------------- the cache
NoEntry == [present |-> FALSE]
Entry(v) == [present |-> TRUE, value |-> v, age |-> 0, idle |-> 0]

\* variant: only the time since insertion expires an entry
IsExpiredByAge(e) == e.age >= TimeToLive

\* moka: an entry is expired once now - last_modified >= ttl or now - last_accessed >= tti
IsExpired(e) == e.age >= TimeToLive \/ e.idle >= TimeToIdle

\* variant: no resident entry is ever served
FreshNever(k) == FALSE

\* Cache::get: the resident entry, unless expired
Fresh(k) == cache[k].present /\ ~IsExpired(cache[k])

\* a read refreshes last_accessed
Touched(k) == [cache EXCEPT ![k].idle = 0]

Ok(v, via) == [kind |-> "Ok", value |-> v, via |-> via]
Err(e, c, via) == [kind |-> "Err", variant |-> "DatabaseArc", cause |-> e, comp |-> c, via |-> via]
NoResult == [kind |-> "None"]

Computing == [state |-> "Computing"]
Aborted == [state |-> "EnclosingFutureAborted"]
ReadyOk(v) == [state |-> "Ready", kind |-> "Ok", value |-> v]
ReadyErr(e, c) == [state |-> "Ready", kind |-> "Err", cause |-> e, comp |-> c]

\* the callers reading the waiter installed for key k
Attached(k) == {q \in Procs : pc[q] = "waiting" /\ key[q] = k /\ cell[q] = Computing}

\* variant: the value set on the waiter reaches no reader
NotifyLost(k, w) == cell

\* set_waiter_value: every reader of the waiter sees w
Notify(k, w) == [q \in Procs |-> IF q \in Attached(k) THEN w ELSE cell[q]]

\* DataSource::new: three empty caches; no request yet
Fresh0 ==
    /\ cache = [k \in Keys |-> NoEntry]
    /\ waiters = [k \in Keys |-> 0]
    /\ pc = [p \in Procs |-> "idle"]
    /\ key = [p \in Procs |-> GlobalKey]
    /\ cell = [p \in Procs |-> Computing]
    /\ result = [p \in Procs |-> NoResult]
    /\ trace = [p \in Procs |-> <<>>]
    /\ calls = 0
    /\ execs = [k \in Keys |-> 0]
    /\ fails = [k \in Keys |-> 0]
    /\ cancels = [k \in Keys |-> 0]

Init == db = BaseDb /\ Fresh0 /\ SideIdle

\* the callers whose init future is running
Running(k) == {q \in Procs : pc[q] \in {"cheap", "expensive", "query"} /\ key[q] = k}

\* Cache::try_get_with, fast path: a fresh entry is returned at once
TryGetWith(p, k) ==
    /\ pc[p] = "idle"
    /\ calls' = calls + 1
    /\ key' = [key EXCEPT ![p] = k]
    /\ trace' = [trace EXCEPT ![p] = <<>>]
    /\ IF Fresh(k)
       THEN /\ cache' = Touched(k)
            /\ result' = [result EXCEPT ![p] = Ok(cache[k].value, "hit")]
            /\ pc' = [pc EXCEPT ![p] = "done"]
       ELSE /\ cache' = cache
            /\ result' = [result EXCEPT ![p] = NoResult]
            /\ pc' = [pc EXCEPT ![p] = "miss"]
    /\ UNCHANGED <<side, db, waiters, cell, execs, fails, cancels>>

GlobalStats(p) == TryGetWith(p, GlobalKey)
TopStats(p, order) == TryGetWith(p, TopKey(order))
StatsForUser(p, id) == TryGetWith(p, PlayerKey(id))

\* variant: every caller that misses installs a waiter of its own
InsertWaiterUnshared(p) ==
    /\ pc[p] = "miss"
    /\ waiters' = [waiters EXCEPT ![key[p]] = p]
    /\ pc' = [pc EXCEPT ![p] = "owner"]
    /\ cell' = cell
    /\ UNCHANGED <<side, db, cache, key, result, trace, calls, execs, fails, cancels>>

\* try_init_or_read: install our waiter for the key, or read the one installed
InsertWaiter(p) ==
    /\ pc[p] = "miss"
    /\ IF waiters[key[p]] = 0
       THEN /\ waiters' = [waiters EXCEPT ![key[p]] = p]
            /\ pc' = [pc EXCEPT ![p] = "owner"]
            /\ cell' = cell
       ELSE /\ waiters' = waiters
            /\ pc' = [pc EXCEPT ![p] = "waiting"]
            /\ cell' = [cell EXCEPT ![p] = Computing]
    /\ UNCHANGED <<side, db, cache, key, result, trace, calls, execs, fails, cancels>>

\* our waiter is installed: read the cache once more; a value inserted meanwhile
\* is returned (and published to the waiter's readers), otherwise the init future starts
Recheck(p) ==
    /\ pc[p] = "owner"
    /\ IF Fresh(key[p])
       THEN /\ cache' = Touched(key[p])
            /\ cell' = Notify(key[p], ReadyOk(cache[key[p]].value))
            /\ waiters' = [waiters EXCEPT ![key[p]] = 0]
            /\ result' = [result EXCEPT ![p] = Ok(cache[key[p]].value, "existing")]
            /\ pc' = [pc EXCEPT ![p] = "done"]
            /\ execs' = execs
       ELSE /\ execs' = [execs EXCEPT ![key[p]] = @ + 1]
            /\ pc' = [pc EXCEPT ![p] = IF key[p].cache = "player" THEN "cheap" ELSE "query"]
            /\ UNCHANGED <<cache, cell, waiters, result>>
    /\ UNCHANGED <<side, db, key, trace, calls, fails, cancels>>

\* variant: a finished computation removes the waiters of every key
InitOkClearing(p, data) ==
    LET v == [comp |-> execs[key[p]], data |-> data] IN
    /\ cache' = [cache EXCEPT ![key[p]] = Entry(v)]
    /\ cell' = Notify(key[p], ReadyOk(v))
    /\ waiters' = [k \in DOMAIN waiters |-> 0]
    /\ result' = [result EXCEPT ![p] = Ok(v, "init")]
    /\ pc' = [pc EXCEPT ![p] = "done"]
    /\ fails' = fails

\* the init future returned Ok(data): insert, publish, remove our waiter
InitOk(p, data) ==
    LET v == [comp |-> execs[key[p]], data |-> data] IN
    /\ cache' = [cache EXCEPT ![key[p]] = Entry(v)]
    /\ cell' = Notify(key[p], ReadyOk(v))
    /\ waiters' = [waiters EXCEPT ![key[p]] = 0]
    /\ result' = [result EXCEPT ![p] = Ok(v, "init")]
    /\ pc' = [pc EXCEPT ![p] = "done"]
    /\ fails' = fails

\* variant: the failure is inserted like a value
InitErrCached(p, e) ==
    /\ cache' = [cache EXCEPT ![key[p]] = Entry([comp |-> execs[key[p]], data |-> [error |-> e]])]
    /\ cell' = Notify(key[p], ReadyErr(e, execs[key[p]]))
    /\ waiters' = [waiters EXCEPT ![key[p]] = 0]
    /\ result' = [result EXCEPT ![p] = Err(e, execs[key[p]], "init")]
    /\ pc' = [pc EXCEPT ![p] = "done"]
    /\ fails' = [fails EXCEPT ![key[p]] = @ + 1]

\* variant: the failure is kept by the owner, the readers are told to retry
InitErrUnshared(p, e) ==
    /\ cache' = cache
    /\ cell' = Notify(key[p], Aborted)
    /\ waiters' = [waiters EXCEPT ![key[p]] = 0]
    /\ result' = [result EXCEPT ![p] = Err(e, execs[key[p]], "init")]
    /\ pc' = [pc EXCEPT ![p] = "done"]
    /\ fails' = [fails EXCEPT ![key[p]] = @ + 1]

\* the init future returned Err(e): publish Arc<e>, remove our waiter, insert nothing
InitErr(p, e) ==
    /\ cache' = cache
    /\ cell' = Notify(key[p], ReadyErr(e, execs[key[p]]))
    /\ waiters' = [waiters EXCEPT ![key[p]] = 0]
    /\ result' = [result EXCEPT ![p] = Err(e, execs[key[p]], "init")]
    /\ pc' = [pc EXCEPT ![p] = "done"]
    /\ fails' = [fails EXCEPT ![key[p]] = @ + 1]

Logged(p, q, out) == [trace EXCEPT ![p] = Append(@, [query |-> q, outcome |-> out])]

\* global_stats' init future: fetch_one of global_stats
QueryGlobal(p) ==
    /\ pc[p] = "query"
    /\ key[p] = GlobalKey
    /\ \E fault \in BOOLEAN :
        IF fault
        THEN trace' = Logged(p, "global", "Fault") /\ InitErr(p, "Fault")
        ELSE trace' = Logged(p, "global", "Row") /\ InitOk(p, [table |-> "global_stats"])
    /\ UNCHANGED <<side, db, key, calls, execs, cancels>>

\* top_stats' init future: the one fetch_all of the ordering
QueryTop(p) ==
    /\ pc[p] = "query"
    /\ key[p].cache = "top"
    /\ \E fault \in BOOLEAN :
        IF fault
        THEN trace' = Logged(p, key[p].order, "Fault") /\ InitErr(p, "Fault")
        ELSE trace' = Logged(p, key[p].order, "Row") /\ InitOk(p, [order_by |-> key[p].order])
    /\ UNCHANGED <<side, db, key, calls, execs, cancels>>

\* stats_for_user's init future, first query: fetch_one of ranked_medic_stats;
\* `if let Ok(result)` returns the row, anything else goes on to the second query
CheapLookup(p) ==
    /\ pc[p] = "cheap"
    /\ \E fault \in BOOLEAN :
        LET rows == CheapRows(db, key[p].steam_id) IN
        IF ~fault /\ rows # {}
        THEN /\ trace' = Logged(p, "cheap", "Row")
             /\ \E r \in rows : InitOk(p, r)
        ELSE /\ trace' = Logged(p, "cheap", IF fault THEN "Fault" ELSE "RowNotFound")
             /\ pc' = [pc EXCEPT ![p] = "expensive"]
             /\ UNCHANGED <<cache, cell, waiters, result, fails>>
    /\ UNCHANGED <<side, db, key, calls, execs, cancels>>

\* variant: a second query that the store failed to answer is issued once more
ExpensiveComputeRetried(p) ==
    /\ pc[p] = "expensive"
    /\ \E fault \in BOOLEAN :
        LET rows == ExpensiveRows(db, key[p].steam_id) IN
        IF fault /\ Len(trace[p]) < 3
        THEN /\ trace' = Logged(p, "expensive", "Fault")
             /\ UNCHANGED <<cache, cell, waiters, result, pc, fails>>
        ELSE IF fault
        THEN trace' = Logged(p, "expensive", "Fault") /\ InitErr(p, "Fault")
        ELSE IF rows = {}
        THEN trace' = Logged(p, "expensive", "RowNotFound") /\ InitErr(p, "RowNotFound")
        ELSE trace' = Logged(p, "expensive", "Row") /\ \E r \in rows : InitOk(p, r)
    /\ UNCHANGED <<side, db, key, calls, execs, cancels>>

\* stats_for_user's init future, second query: fetch_one of medic_stats joined
\* with user_names; its Result is the init future's
ExpensiveCompute(p) ==
    /\ pc[p] = "expensive"
    /\ \E fault \in BOOLEAN :
        LET rows == ExpensiveRows(db, key[p].steam_id) IN
        IF fault
        THEN trace' = Logged(p, "expensive", "Fault") /\ InitErr(p, "Fault")
        ELSE IF rows = {}
        THEN trace' = Logged(p, "expensive", "RowNotFound") /\ InitErr(p, "RowNotFound")
        ELSE trace' = Logged(p, "expensive", "Row") /\ \E r \in rows : InitOk(p, r)
    /\ UNCHANGED <<side, db, key, calls, execs, cancels>>

\* a caller reading another caller's waiter: Ready is its outcome; if the
\* waiter's owner was dropped the caller retries from try_insert_waiter
ReadWaiter(p) ==
    /\ pc[p] = "waiting"
    /\ cell[p] # Computing
    /\ IF cell[p] = Aborted
       THEN /\ pc' = [pc EXCEPT ![p] = "miss"]
            /\ result' = result
       ELSE /\ pc' = [pc EXCEPT ![p] = "done"]
            /\ result' = [result EXCEPT ![p] =
                 IF cell[p].kind = "Ok" THEN Ok(cell[p].value, "waiter")
                 ELSE Err(cell[p].cause, cell[p].comp, "waiter")]
    /\ cell' = [cell EXCEPT ![p] = Computing]
    /\ UNCHANGED <<side, db, cache, waiters, key, trace, calls, execs, fails, cancels>>

\* variant: a dropped owner leaves its waiter installed and tells nobody
AbandonDetached(p) ==
    /\ pc[p] \in {"cheap", "expensive", "query", "waiting"}
    /\ IF waiters[key[p]] = p /\ pc[p] # "waiting"
       THEN /\ cell' = cell
            /\ waiters' = waiters
            /\ cancels' = [cancels EXCEPT ![key[p]] = @ + 1]
       ELSE /\ cell' = [cell EXCEPT ![p] = Computing]
            /\ UNCHANGED <<waiters, cancels>>
    /\ pc' = [pc EXCEPT ![p] = "idle"]
    /\ key' = [key EXCEPT ![p] = GlobalKey]
    /\ trace' = [trace EXCEPT ![p] = <<>>]
    /\ UNCHANGED <<side, db, cache, result, calls, execs, fails>>

\* the caller's future is dropped at an await point.  A reader just leaves; the
\* owner's WaiterGuard marks its waiter aborted and removes it, and its init
\* future is dropped with it
Abandon(p) ==
    /\ pc[p] \in {"cheap", "expensive", "query", "waiting"}
    /\ IF waiters[key[p]] = p /\ pc[p] # "waiting"
       THEN /\ cell' = [Notify(key[p], Aborted) EXCEPT ![p] = Computing]
            /\ waiters' = [waiters EXCEPT ![key[p]] = 0]
            /\ cancels' = [cancels EXCEPT ![key[p]] = @ + 1]
       ELSE /\ cell' = [cell EXCEPT ![p] = Computing]
            /\ UNCHANGED <<waiters, cancels>>
    /\ pc' = [pc EXCEPT ![p] = "idle"]
    /\ key' = [key EXCEPT ![p] = GlobalKey]
    /\ trace' = [trace EXCEPT ![p] = <<>>]
    /\ UNCHANGED <<side, db, cache, result, calls, execs, fails>>

\* the call returned its outcome to the handler
Return(p) ==
    /\ pc[p] = "done"
    /\ pc' = [pc EXCEPT ![p] = "idle"]
    /\ key' = [key EXCEPT ![p] = GlobalKey]
    /\ result' = [result EXCEPT ![p] = NoResult]
    /\ trace' = [trace EXCEPT ![p] = <<>>]
    /\ UNCHANGED <<side, db, cache, waiters, cell, calls, execs, fails, cancels>>

\* the clock advances: every resident entry is older and idler
Tick ==
    /\ \E k \in DOMAIN cache :
        cache[k].present /\ (cache[k].age < TimeToLive \/ cache[k].idle < TimeToIdle)
    /\ cache' = [k \in DOMAIN cache |->
                   IF cache[k].present
                   THEN [cache[k] EXCEPT !.age = Min(@ + Granule, TimeToLive),
                                         !.idle = Min(@ + Granule, TimeToIdle)]
                   ELSE cache[k]]
    /\ UNCHANGED <<side, db, waiters, pc, key, cell, result, trace, calls, execs, fails, cancels>>

\* a request is handed to a free task; free tasks are interchangeable, the
\* lowest one takes it
FreeSlot(p) == pc[p] = "idle" /\ \A q \in Procs : q < p => pc[q] # "idle"

Request(p) ==
    /\ calls < MaxCalls
    /\ FreeSlot(p)
    /\ \/ GlobalStats(p)
       \/ \E o \in Orders : TopStats(p, o)
       \/ \E i \in Players : StatsForUser(p, i)

Next ==
    \E p \in Procs :
        \/ Request(p)
        \/ InsertWaiter(p)
        \/ Recheck(p)
        \/ QueryGlobal(p)
        \/ QueryTop(p)
        \/ CheapLookup(p)
        \/ ExpensiveCompute(p)
        \/ ReadWaiter(p)
        \/ Abandon(p)
        \/ Return(p)

\* concurrent callers, entries that do not age
Spec == Init /\ [][Next]_vars

\* one request at a time, on a running clock
Sequential == \A q \in Procs : pc[q] = "idle"

ClockRequest(p) ==
    /\ calls < MaxClockCalls
    /\ Sequential
    /\ FreeSlot(p)
    /\ \/ GlobalStats(p)
       \/ \E o \in Orders : TopStats(p, o)
       \/ \E i \in Players : StatsForUser(p, i)

ClockNext ==
    \/ \E p \in Procs :
        \/ ClockRequest(p)
        \/ InsertWaiter(p)
        \/ Recheck(p)
        \/ QueryGlobal(p)
        \/ QueryTop(p)
        \/ CheapLookup(p)
        \/ ExpensiveCompute(p)
        \/ Return(p)
    \/ Tick

SpecClock == Init /\ [][ClockNext]_vars

\* one player-stats request at a time, over every store of StoreDbs
StoreInit == db \in StoreDbs /\ Fresh0 /\ SideIdle

StoreRequest(p) ==
    /\ calls < MaxStoreCalls
    /\ Sequential
    /\ FreeSlot(p)
    /\ \E i \in Players : StatsForUser(p, i)

StoreNext ==
    \E p \in Procs :
        \/ StoreRequest(p)
        \/ InsertWaiter(p)
        \/ Recheck(p)
        \/ CheapLookup(p)
        \/ ExpensiveCompute(p)
        \/ Return(p)

SpecStore == StoreInit /\ [][StoreNext]_vars

\* the runtime polls every task that can make progress, and every store call returns
Progress(p) ==
    \/ InsertWaiter(p)
    \/ Recheck(p)
    \/ QueryGlobal(p)
    \/ QueryTop(p)
    \/ CheapLookup(p)
    \/ ExpensiveCompute(p)
    \/ ReadWaiter(p)

FairRequest(p) ==
    /\ calls < MaxFairCalls
    /\ FreeSlot(p)
    /\ \/ GlobalStats(p)
       \/ \E o \in Orders : TopStats(p, o)
       \/ \E i \in Players : StatsForUser(p, i)

FairNext ==
    \E p \in Procs :
        \/ FairRequest(p)
        \/ InsertWaiter(p)
        \/ Recheck(p)
        \/ QueryGlobal(p)
        \/ QueryTop(p)
        \/ CheapLookup(p)
        \/ ExpensiveCompute(p)
        \/ ReadWaiter(p)
        \/ Abandon(p)
        \/ Return(p)

FairSpec == Init /\ [][FairNext]_vars /\ \A p \in Procs : WF_vars(Progress(p))
\* ------------------------------------------------------------- several keys
\* the keys of the runs on key independence: the singleton, two orderings, two
\* identities
SeveralKeys == {GlobalKey, TopKey("Drops"), TopKey("Dps"), PlayerKey(1), PlayerKey(3)}

\* DataSource::new, with the caches ranging over the keys K
FreshOver(K) ==
    /\ cache = [k \in K |-> NoEntry]
    /\ waiters = [k \in K |-> 0]
    /\ pc = [p \in Procs |-> "idle"]
    /\ key = [p \in Procs |-> GlobalKey]
    /\ cell = [p \in Procs |-> Computing]
    /\ result = [p \in Procs |-> NoResult]
    /\ trace = [p \in Procs |-> <<>>]
    /\ calls = 0
    /\ execs = [k \in K |-> 0]
    /\ fails = [k \in K |-> 0]
    /\ cancels = [k \in K |-> 0]

KeysInit == db = BaseDb /\ SideIdle /\ FreshOver(SeveralKeys)

KeysRequest(p) ==
    /\ calls < MaxKeyCalls
    /\ FreeSlot(p)
    /\ \/ GlobalStats(p)
       \/ \E k \in SeveralKeys : k.cache = "top" /\ TopStats(p, k.order)
       \/ \E k \in SeveralKeys : k.cache = "player" /\ StatsForUser(p, k.steam_id)

KeysNext ==
    \/ \E p \in Procs :
        \/ KeysRequest(p)
        \/ InsertWaiter(p)
        \/ Recheck(p)
        \/ QueryGlobal(p)
        \/ QueryTop(p)
        \/ CheapLookup(p)
        \/ ExpensiveCompute(p)
        \/ ReadWaiter(p)
        \/ Abandon(p)
        \/ Return(p)
    \/ Tick

\* concurrent callers over several keys, on a running clock
SpecKeys == KeysInit /\ [][KeysNext]_vars

\* ------------------------------------------------------------- player_search
SearchLogged(q, out) == Append(search_log, [query |-> q, outcome |-> out])

\* player_search: `if let Ok(steam_id) = search.parse()`
PlayerSearch ==
    /\ search_pc = "called"
    /\ search_pc' = IF Parses(search) THEN "get_user_name" ELSE "wildcard"
    /\ UNCHANGED <<cachevars, pagevars, vanityvars, idvars, capvars, user_names, medic_names, search, search_result, search_log>>

\* variant: a named identity is handed to the wildcard search as well
GetUserNameThenWildcard ==
    /\ search_pc = "get_user_name"
    /\ search_log' = SearchLogged("user_names", "Row")
    /\ search_pc' = "wildcard"
    /\ UNCHANGED <<cachevars, pagevars, vanityvars, idvars, capvars, user_names, medic_names, search, search_result>>

\* get_user_name: fetch_one of user_names, `.await?`, then Ok(result.name);
\* back in player_search `?` returns its error, Some(name) returns the one
\* synthetic result, None falls through to the wildcard search
GetUserName ==
    /\ search_pc = "get_user_name"
    /\ \E fault \in BOOLEAN :
        LET id == Parsed(search)
            row == user_names[id]
        IN
        IF fault \/ row = "none"
        THEN /\ search_log' = SearchLogged("user_names", IF fault THEN "Fault" ELSE "RowNotFound")
             /\ search_result' = SearchErr(IF fault THEN "Fault" ELSE "RowNotFound")
             /\ search_pc' = "done"
        ELSE /\ search_log' = SearchLogged("user_names", "Row")
             /\ IF row = "named"
                THEN /\ search_result' = SearchOk(<<SearchResult(id, NameOf(id), 1, 100)>>)
                     /\ search_pc' = "done"
                ELSE /\ search_result' = search_result
                     /\ search_pc' = "wildcard"
    /\ UNCHANGED <<cachevars, pagevars, vanityvars, idvars, capvars, user_names, medic_names, search>>

\* player_wildcard_search: fetch_all of medic_names, sort by weight, keep the
\* first row of each steam_id
PlayerWildcardSearch ==
    /\ search_pc = "wildcard"
    /\ \E fault \in BOOLEAN :
        IF fault
        THEN /\ search_log' = SearchLogged("medic_names", "Fault")
             /\ search_result' = SearchErr("Fault")
        ELSE /\ search_log' = SearchLogged("medic_names", "Rows")
             /\ search_result' = SearchOk(Dedup(SortByWeight(medic_names), {}))
    /\ search_pc' = "done"
    /\ UNCHANGED <<cachevars, pagevars, vanityvars, idvars, capvars, user_names, medic_names, search>>

\* one search, over every text, name table and fetch
SearchInit ==
    /\ db = BaseDb /\ Fresh0 /\ VanityIdle /\ IdIdle /\ CapIdle /\ PageIdle
    /\ user_names \in [SearchIds -> {"none", "null", "named"}]
    /\ medic_names \in Fetches
    /\ search \in SearchTexts
    /\ search_pc = "called"
    /\ search_result = [kind |-> "None"]
    /\ search_log = <<>>

SearchNext ==
    \/ PlayerSearch
    \/ GetUserName
    \/ PlayerWildcardSearch

SpecSearch == SearchInit /\ [][SearchNext]_vars

\* ------------------------------------------------------------- resolve_vanity_url
VanityInFlight == {"select", "resolve", "insert"}

\* the record of p's call after one more step: what the step did, and the
\* outcome of the call if the step ends it
VanityLogged(p, step, out, res) ==
    [vanity_log EXCEPT ![vanity_call[p]] = [@ EXCEPT ![step] = out, !.result = res]]

\* the first row of the url, as fetch_one returns it
VanityFirst(url) ==
    vanity_urls[CHOOSE i \in VanityRowsOf(url) : \A j \in VanityRowsOf(url) : i <= j]

\* a caller enters resolve_vanity_url(url).  The record notes whether the table
\* held a row of the url at that moment and whether another call was under way.
ResolveVanityUrl(p, url) ==
    /\ vanity_pc[p] = "idle"
    /\ Len(vanity_log) < MaxVanityCalls
    /\ LET others == {vanity_call[q] : q \in {q \in VanityProcs : vanity_pc[q] \in VanityInFlight}}
           marked == [n \in DOMAIN vanity_log |->
                         IF n \in others THEN [vanity_log[n] EXCEPT !.alone = FALSE]
                         ELSE vanity_log[n]]
       IN
       vanity_log' = Append(marked,
           [caller |-> p, url |-> url, stored |-> VanityRowsOf(url) # {},
            alone |-> others = {}, select |-> "-", resolve |-> "-", insert |-> "-",
            id |-> 0, result |-> [kind |-> "None"]])
    /\ vanity_call' = [vanity_call EXCEPT ![p] = Len(vanity_log) + 1]
    /\ vanity_pc' = [vanity_pc EXCEPT ![p] = "select"]
    /\ UNCHANGED <<cachevars, pagevars, searchvars, idvars, capvars, vanity_urls>>

\* `if let Ok(row) = SELECT steam_id FROM vanity_urls WHERE url=$1 ...
\* .fetch_one(..).await`: the first matching row gives Ok(Some(row.steam_id));
\* every Err, RowNotFound or a fault of the store, goes to the else branch
SelectVanity(p) ==
    /\ vanity_pc[p] = "select"
    /\ \E fault \in BOOLEAN :
        LET url == vanity_log[vanity_call[p]].url IN
        IF ~fault /\ VanityRowsOf(url) # {}
        THEN /\ vanity_log' = VanityLogged(p, "select", "Row", VanityOk(VanityFirst(url).steam_id))
             /\ vanity_pc' = [vanity_pc EXCEPT ![p] = "idle"]
        ELSE /\ vanity_log' = VanityLogged(p, "select", IF fault THEN "Fault" ELSE "RowNotFound",
                                           [kind |-> "None"])
             /\ vanity_pc' = [vanity_pc EXCEPT ![p] = "resolve"]
    /\ UNCHANGED <<cachevars, pagevars, searchvars, idvars, capvars, vanity_urls, vanity_call>>

\* variant: "no match" is stored as a row without an identity
SteamResolveVanityNegative(p) ==
    /\ vanity_pc[p] = "resolve"
    /\ \E failure \in BOOLEAN :
        LET url == vanity_log[vanity_call[p]].url
            id == SteamApi(url)
        IN
        IF failure
        THEN /\ vanity_log' = VanityLogged(p, "resolve", "Failure", VanityErr("Steam"))
             /\ vanity_pc' = [vanity_pc EXCEPT ![p] = "idle"]
             /\ vanity_urls' = vanity_urls
        ELSE IF id = 0
        THEN /\ vanity_log' = VanityLogged(p, "resolve", "None", VanityOk(0))
             /\ vanity_pc' = [vanity_pc EXCEPT ![p] = "idle"]
             /\ vanity_urls' = Append(vanity_urls, VanityRow(url, 0))
        ELSE /\ vanity_log' = [VanityLogged(p, "resolve", "Some", [kind |-> "None"])
                                 EXCEPT ![vanity_call[p]].id = id]
             /\ vanity_pc' = [vanity_pc EXCEPT ![p] = "insert"]
             /\ vanity_urls' = vanity_urls
    /\ UNCHANGED <<cachevars, pagevars, searchvars, idvars, capvars, vanity_call>>

\* variant: a failure of the resolver is taken for "no match"
SteamResolveVanityLenient(p) ==
    /\ vanity_pc[p] = "resolve"
    /\ \E failure \in BOOLEAN :
        LET id == SteamApi(vanity_log[vanity_call[p]].url) IN
        IF failure \/ id = 0
        THEN /\ vanity_log' = VanityLogged(p, "resolve", IF failure THEN "Failure" ELSE "None",
                                           VanityOk(0))
             /\ vanity_pc' = [vanity_pc EXCEPT ![p] = "idle"]
        ELSE /\ vanity_log' = [VanityLogged(p, "resolve", "Some", [kind |-> "None"])
                                 EXCEPT ![vanity_call[p]].id = id]
             /\ vanity_pc' = [vanity_pc EXCEPT ![p] = "insert"]
    /\ UNCHANGED <<cachevars, pagevars, searchvars, idvars, capvars, vanity_urls, vanity_call>>

\* `else if let Some(steam_id) = steam_resolve_vanity::resolve_vanity_url(url,
\* &self.api_key).await?`: a failure of the service returns DropsError::Steam,
\* Some(id) goes on to the INSERT, None gives Ok(None) (written VanityOk(0))
SteamResolveVanity(p) ==
    /\ vanity_pc[p] = "resolve"
    /\ \E failure \in BOOLEAN :
        LET id == SteamApi(vanity_log[vanity_call[p]].url) IN
        IF failure
        THEN /\ vanity_log' = VanityLogged(p, "resolve", "Failure", VanityErr("Steam"))
             /\ vanity_pc' = [vanity_pc EXCEPT ![p] = "idle"]
        ELSE IF id = 0
        THEN /\ vanity_log' = VanityLogged(p, "resolve", "None", VanityOk(0))
             /\ vanity_pc' = [vanity_pc EXCEPT ![p] = "idle"]
        ELSE /\ vanity_log' = [VanityLogged(p, "resolve", "Some", [kind |-> "None"])
                                 EXCEPT ![vanity_call[p]].id = id]
             /\ vanity_pc' = [vanity_pc EXCEPT ![p] = "insert"]
    /\ UNCHANGED <<cachevars, pagevars, searchvars, idvars, capvars, vanity_urls, vanity_call>>

\* variant: the identity is returned whatever becomes of the INSERT
InsertVanityUnchecked(p) ==
    /\ vanity_pc[p] = "insert"
    /\ LET call == vanity_log[vanity_call[p]] IN
       \E out \in {"Fault", "Inserted"} \cup
                  (IF VanityRowsOf(call.url) # {} THEN {"UniqueViolation"} ELSE {}) :
        /\ vanity_urls' = IF out = "Inserted"
                          THEN Append(vanity_urls, VanityRow(call.url, call.id))
                          ELSE vanity_urls
        /\ vanity_log' = VanityLogged(p, "insert", out, VanityOk(call.id))
    /\ vanity_pc' = [vanity_pc EXCEPT ![p] = "idle"]
    /\ UNCHANGED <<cachevars, pagevars, searchvars, idvars, capvars, vanity_call>>

\* `INSERT INTO vanity_urls(url, steam_id) VALUES($1, $2) ... .execute(..)
\* .await?`, then Ok(Some(id)).  The statement has no ON CONFLICT clause and the
\* table's definition is not part of the sources: where a row of the url exists
\* the statement either adds a second row or fails on a unique constraint.
InsertVanity(p) ==
    /\ vanity_pc[p] = "insert"
    /\ LET call == vanity_log[vanity_call[p]] IN
       \E out \in {"Fault", "Inserted"} \cup
                  (IF VanityRowsOf(call.url) # {} THEN {"UniqueViolation"} ELSE {}) :
        IF out = "Inserted"
        THEN /\ vanity_urls' = Append(vanity_urls, VanityRow(call.url, call.id))
             /\ vanity_log' = VanityLogged(p, "insert", out, VanityOk(call.id))
        ELSE /\ vanity_urls' = vanity_urls
             /\ vanity_log' = VanityLogged(p, "insert", out, VanityErr("Database"))
    /\ vanity_pc' = [vanity_pc EXCEPT ![p] = "idle"]
    /\ UNCHANGED <<cachevars, pagevars, searchvars, idvars, capvars, vanity_call>>

\* the table at the start: empty, or holding the row of an earlier resolution
VanityStores == {<<>>, <<VanityRow("gabe", SteamApi("gabe"))>>}

VanityInit ==
    /\ db = BaseDb /\ Fresh0 /\ SearchIdle /\ IdIdle /\ CapIdle /\ PageIdle
    /\ vanity_urls \in VanityStores
    /\ vanity_pc = [p \in VanityProcs |-> "idle"]
    /\ vanity_call = [p \in VanityProcs |-> 0]
    /\ vanity_log = <<>>

VanityNext ==
    \E p \in VanityProcs :
        \/ \E url \in VanityTokens : ResolveVanityUrl(p, url)
        \/ SelectVanity(p)
        \/ SteamResolveVanity(p)
        \/ InsertVanity(p)

SpecVanity == VanityInit /\ [][VanityNext]_vars

\* ------------------------------------------------------------- SteamId
\* from_str of the text
ParseText ==
    /\ id_pc = "text"
    /\ \E dflt \in {0, 1} : id_parsed' = FromStr(id_text, dflt)
    /\ id_pc' = IF id_parsed' = NoId THEN "rejected" ELSE "parsed"
    /\ UNCHANGED <<cachevars, pagevars, searchvars, vanityvars, capvars, id_text, id_steam3, id_again, id_u64, id_back>>

\* steam3() of the identity
RenderSteam3 ==
    /\ id_pc = "parsed"
    /\ id_steam3' = Steam3(id_parsed)
    /\ id_pc' = "rendered"
    /\ UNCHANGED <<cachevars, pagevars, searchvars, vanityvars, capvars, id_text, id_parsed, id_again, id_u64, id_back>>

\* from_str of the rendering
ParseAgain ==
    /\ id_pc = "rendered"
    /\ \E dflt \in {0, 1} : id_again' = FromStr(id_steam3, dflt)
    /\ id_pc' = "again"
    /\ UNCHANGED <<cachevars, pagevars, searchvars, vanityvars, capvars, id_text, id_parsed, id_steam3, id_u64, id_back>>

\* u64::from(id)
ToNumber ==
    /\ id_pc = "again"
    /\ id_u64' = IntoU64(id_parsed)
    /\ id_pc' = "number"
    /\ UNCHANGED <<cachevars, pagevars, searchvars, vanityvars, capvars, id_text, id_parsed, id_steam3, id_again, id_back>>

\* SteamId::from(n)
FromNumber ==
    /\ id_pc = "number"
    /\ id_back' = FromU64(id_u64)
    /\ id_pc' = "done"
    /\ UNCHANGED <<cachevars, pagevars, searchvars, vanityvars, capvars, id_text, id_parsed, id_steam3, id_again, id_u64>>

\* one chain of conversions, over every text
IdInit ==
    /\ db = BaseDb /\ Fresh0 /\ SearchIdle /\ VanityIdle /\ CapIdle /\ PageIdle
    /\ id_text \in IdTexts
    /\ id_pc = "text"
    /\ id_parsed = NoId /\ id_steam3 = [form |-> "other"] /\ id_again = NoId
    /\ id_u64 = NoBits /\ id_back = NoId

IdNext ==
    \/ ParseText
    \/ RenderSteam3
    \/ ParseAgain
    \/ ToNumber
    \/ FromNumber

SpecSteamId == IdInit /\ [][IdNext]_vars

\* ------------------------------------------------------------- the caches' capacity
\* the popularity of an identity: counted for the identities asked for here; the
\* others were asked for once, when they entered the cache
Freq(id) == IF id \in DOMAIN player_freq THEN player_freq[id] ELSE 1
Bump(id) == [player_freq EXCEPT ![id] = Min(@ + 1, MaxFreq)]

\* stats_for_user(id) on player_cache, built with max_capacity(1024): a resident
\* identity is read and becomes the most recently used; for any other the
\* value is computed and put into the map, and the write waits for the policy.
\* Either way the identity's popularity grows.
PlayerGet(id) ==
    /\ cap_calls < MaxCapCalls
    /\ cap_calls' = cap_calls + 1
    /\ player_freq' = Bump(id)
    /\ IF id \in player_map
       THEN /\ player_lru' = IF id \in Range(player_lru)
                             THEN Without(player_lru, id) \o <<id>> ELSE player_lru
            /\ UNCHANGED <<player_map, player_writes>>
       ELSE /\ player_map' = player_map \cup {id}
            /\ player_writes' = Append(player_writes, id)
            /\ player_lru' = player_lru
    /\ UNCHANGED <<cachevars, pagevars, searchvars, vanityvars, idvars, top_map, global_map>>

\* variant: plain LRU, the new entry always replaces the least recently used
RunPendingTasksLru ==
    /\ player_writes # <<>>
    /\ LET id == Head(player_writes)
           victim == player_lru[1]
       IN
       IF Len(player_lru) < MaxCapacity
       THEN /\ player_lru' = Append(player_lru, id)
            /\ player_map' = player_map
       ELSE /\ player_lru' = Append(Tail(player_lru), id)
            /\ player_map' = player_map \ {victim}
    /\ player_writes' = Tail(player_writes)
    /\ UNCHANGED <<cachevars, pagevars, searchvars, vanityvars, idvars, player_freq, top_map, global_map,
                   cap_calls>>

\* moka's maintenance applies the oldest waiting write under the default
\* policy (TinyLFU: LRU eviction, LFU admission): below the capacity the entry
\* is admitted; at the capacity it is admitted in place of the least recently
\* used entry if it is the more popular of the two, and removed again if not
RunPendingTasks ==
    /\ player_writes # <<>>
    /\ LET id == Head(player_writes)
           victim == player_lru[1]
       IN
       IF Len(player_lru) < MaxCapacity
       THEN /\ player_lru' = Append(player_lru, id)
            /\ player_map' = player_map
       ELSE IF Freq(id) > Freq(victim)
       THEN /\ player_lru' = Append(Tail(player_lru), id)
            /\ player_map' = player_map \ {victim}
       ELSE /\ player_lru' = player_lru
            /\ player_map' = player_map \ {id}
    /\ player_writes' = Tail(player_writes)
    /\ UNCHANGED <<cachevars, pagevars, searchvars, vanityvars, idvars, player_freq, top_map, global_map,
                   cap_calls>>

\* top_stats(order) on top_cache, built without max_capacity
TopGet(order) ==
    /\ cap_calls < MaxCapCalls
    /\ cap_calls' = cap_calls + 1
    /\ top_map' = top_map \cup {order}
    /\ UNCHANGED <<cachevars, pagevars, searchvars, vanityvars, idvars, player_map, player_lru,
                   player_freq, player_writes, global_map>>

\* global_stats() on global_cache, built without max_capacity
GlobalGet ==
    /\ cap_calls < MaxCapCalls
    /\ cap_calls' = cap_calls + 1
    /\ global_map' = global_map \cup {"()"}
    /\ UNCHANGED <<cachevars, pagevars, searchvars, vanityvars, idvars, player_map, player_lru,
                   player_freq, player_writes, top_map>>

\* the per-player cache is full: 1024 identities, each asked for once, in the
\* order of their numbers
CapInit ==
    /\ db = BaseDb /\ Fresh0 /\ SearchIdle /\ VanityIdle /\ IdIdle /\ PageIdle
    /\ player_map = 1..MaxCapacity
    /\ player_lru = [i \in 1..MaxCapacity |-> i]
    /\ player_freq = [i \in CapIds |-> IF i <= MaxCapacity THEN 1 ELSE 0]
    /\ player_writes = <<>>
    /\ top_map = {} /\ global_map = {}
    /\ cap_calls = 0

CapNext ==
    \/ \E id \in CapIds : PlayerGet(id)
    \/ RunPendingTasks
    \/ \E order \in TopOrder : TopGet(order)
    \/ GlobalGet

SpecCapacity == CapInit /\ [][CapNext]_vars

\* ------------------------------------------------------------- page_player
\* The path texts of the player page: two that parse as identities, a vanity
\* name the resolver knows and one it does not.
PageTexts == {"[U:1:1]", "STEAM_0:0:1", "gabe", "nobody"}
PageKeys ==
    {PlayerKey(Parsed(t)) : t \in {t \in PageTexts : Parses(t)}}
        \cup {PlayerKey(SteamApi(t)) : t \in {t \in PageTexts : ~Parses(t) /\ SteamApi(t) # 0}}

\* the stores of the page runs: player 1 with or without a view row, a raw row
\* and a name; player 2 has no row anywhere
PageStores ==
    {[ranked |-> v, stats |-> st, names |-> n] :
        v \in Opt({RankedRow(1, 150, 2, 2, 2, 2)}),
        st \in Opt({StatsRow(1, 50, 2, 1, 3)}), n \in SUBSET {1}}

\* impl IntoResponse for DropsError: the status of each variant
Status(variant) ==
    CASE variant = "SteamId" -> 400
      [] variant \in {"NotFound", "UserNotFound"} -> 404
      [] OTHER -> 500

ErrorResponse(variant) == [kind |-> "Err", variant |-> variant, status |-> Status(variant)]
HtmlResponse == [kind |-> "Html", variant |-> "-", status |-> 200]

\* The handler runs on task 1 of the cache and of resolve_vanity_url.
\* A request arrives and its path text is parsed: Ok(steam_id) goes straight
\* to stats_for_user, Err(e) to resolve_vanity_url.  The request notes how many
\* vanity lookups and cache calls were made before it.
PagePlayer(text) ==
    /\ page.pc \in {"idle", "responded"}
    /\ page.count < MaxPageCalls
    /\ pc[1] = "idle" /\ vanity_pc[1] = "idle"
    /\ page' = [pc |-> IF Parses(text) THEN "stats" ELSE "vanity",
                text |-> text,
                id |-> IF Parses(text) THEN Parsed(text) ELSE 0,
                response |-> NoResponse,
                count |-> page.count + 1,
                lookups |-> Len(vanity_log),
                stats |-> calls]
    /\ UNCHANGED <<cachevars, searchvars, vanityvars, idvars, capvars>>

\* Err(e) => data_source.resolve_vanity_url(&steam_id)
PageResolveVanityUrl ==
    /\ page.pc = "vanity"
    /\ Len(vanity_log) = page.lookups
    /\ ResolveVanityUrl(1, page.text)

\* the outcome of this request's resolve_vanity_url call
PageLookup == vanity_log[page.lookups + 1].result

\* variant: a name nobody has is answered with UserNotFound
PageVanityReturnedNotFound ==
    /\ page.pc = "vanity"
    /\ Len(vanity_log) = page.lookups + 1
    /\ vanity_pc[1] = "idle"
    /\ page' = IF PageLookup.kind = "Err"
               THEN [page EXCEPT !.pc = "responded", !.response = ErrorResponse(PageLookup.variant)]
               ELSE IF PageLookup.value = 0
               THEN [page EXCEPT !.pc = "responded", !.response = ErrorResponse("UserNotFound")]
               ELSE [page EXCEPT !.pc = "stats", !.id = PageLookup.value]
    /\ UNCHANGED <<cachevars, searchvars, vanityvars, idvars, capvars>>

\* `.await?.ok_or(e).map_err(..)?`: an error of resolve_vanity_url is the
\* response; Ok(None) gives the parse error e; Ok(Some(id)) is the identity
PageVanityReturned ==
    /\ page.pc = "vanity"
    /\ Len(vanity_log) = page.lookups + 1
    /\ vanity_pc[1] = "idle"
    /\ page' = IF PageLookup.kind = "Err"
               THEN [page EXCEPT !.pc = "responded", !.response = ErrorResponse(PageLookup.variant)]
               ELSE IF PageLookup.value = 0
               THEN [page EXCEPT !.pc = "responded", !.response = ErrorResponse("SteamId")]
               ELSE [page EXCEPT !.pc = "stats", !.id = PageLookup.value]
    /\ UNCHANGED <<cachevars, searchvars, vanityvars, idvars, capvars>>

\* data_source.stats_for_user(steam_id)
PageStatsForUser ==
    /\ page.pc = "stats"
    /\ calls = page.stats
    /\ StatsForUser(1, page.id)

\* `.await.map_err(|_| DropsError::UserNotFound)?`, then the template: every
\* Err of stats_for_user is answered with UserNotFound; Ok(stats) is rendered,
\* and a failure of the rendering is DropsError::Template
PageStatsReturned ==
    /\ page.pc = "stats"
    /\ pc[1] = "done"
    /\ \E rendered \in BOOLEAN :
        page' = [page EXCEPT !.pc = "responded",
                             !.response = IF result[1].kind = "Err"
                                          THEN ErrorResponse("UserNotFound")
                                          ELSE IF rendered THEN HtmlResponse
                                          ELSE ErrorResponse("Template")]
    /\ UNCHANGED <<cachevars, searchvars, vanityvars, idvars, capvars>>

PageInit ==
    /\ db \in PageStores /\ FreshOver(PageKeys)
    /\ SearchIdle /\ IdIdle /\ CapIdle /\ PageIdle
    /\ vanity_urls \in VanityStores
    /\ vanity_pc = [p \in VanityProcs |-> "idle"]
    /\ vanity_call = [p \in VanityProcs |-> 0]
    /\ vanity_log = <<>>

PageNext ==
    \/ \E text \in PageTexts : PagePlayer(text)
    \/ PageResolveVanityUrl
    \/ SelectVanity(1)
    \/ SteamResolveVanity(1)
    \/ InsertVanity(1)
    \/ PageVanityReturned
    \/ PageStatsForUser
    \/ InsertWaiter(1)
    \/ Recheck(1)
    \/ CheapLookup(1)
    \/ ExpensiveCompute(1)
    \/ PageStatsReturned
    \/ page.pc = "responded" /\ Return(1)

\* page_player requests, one after another
SpecPage == PageInit /\ [][PageNext]_vars

\* ------------------------------------------------------------- properties
Done(p) == pc[p] = "done"
InFlight == {"cheap", "expensive", "query"}

\* p's init future returns an error in this step
Failing(p) == pc[p] \in InFlight /\ pc'[p] = "done" /\ result'[p].kind = "Err"

\* p's future is dropped in this step
Abandoning(p) == pc[p] \in InFlight \cup {"waiting"} /\ pc'[p] = "idle"

\* C1: single-flight.  For every key at most one init future runs at a time; a
\* computation is started a further time only after a failure or after the
\* running caller abandoned, so with neither it runs exactly once; and every
\* caller that returned a value returned the one value that computation inserted.
SingleFlight ==
    /\ \A k \in Keys :
        /\ Cardinality(Running(k)) <= 1
        /\ execs[k] <= 1 + fails[k] + cancels[k]
    /\ \A p \in Procs :
        Done(p) =>
            /\ execs[key[p]] >= 1
            /\ result[p].kind = "Ok" =>
                /\ cache[key[p]].present
                /\ result[p].value = cache[key[p]].value
                /\ result[p].value.comp = execs[key[p]]

\* every task called the same cold key, nobody abandoned, nothing failed: one
\* computation, returned by the caller that ran it and by the others that waited
SingleFlightWitness ==
    \E k \in Keys :
        /\ execs[k] = 1 /\ fails[k] = 0 /\ cancels[k] = 0
        /\ \A p \in Procs : Done(p) /\ key[p] = k /\ result[p].kind = "Ok"
        /\ Cardinality({p \in Procs : result[p].via = "init"}) = 1
        /\ Cardinality({p \in Procs : result[p].via = "waiter"}) = MaxCallers - 1

\* C2: a failed computation is never cached.  The step in which an init future
\* fails leaves no entry for the key and no waiter installed; a later call never
\* gets an error from the fast path or from the re-check, a caller that misses
\* either waits on a computation still in flight or starts one itself.
FailureNotCached ==
    [][\A p \in Procs :
        /\ Failing(p) =>
            /\ ~cache'[key[p]].present
            /\ waiters'[key[p]] = 0
            /\ \A q \in Procs : ~(pc'[q] = "waiting" /\ key'[q] = key[p] /\ cell'[q].state = "Computing")
        /\ (pc[p] \in {"idle", "owner"} /\ pc'[p] = "done") => result'[p].kind = "Ok"
        /\ (pc[p] = "miss" /\ pc'[p] = "waiting") =>
            /\ waiters[key[p]] # 0
            /\ pc[waiters[key[p]]] \in InFlight \cup {"owner"}
            /\ key[waiters[key[p]]] = key[p]
            /\ cell'[p].state = "Computing"
        /\ (pc[p] = "owner" /\ pc'[p] # "owner" /\ ~cache[key[p]].present) =>
            /\ pc'[p] \in InFlight
            /\ execs'[key[p]] = execs[key[p]] + 1
      ]_vars

\* a call failed, and a later computation for the same key ran and succeeded
FailureNotCachedWitness ==
    \E p, q \in Procs :
        /\ Done(p) /\ Done(q) /\ key[p] = key[q]
        /\ result[p].kind = "Err" /\ result[p].via = "init"
        /\ result[q].kind = "Ok" /\ result[q].via = "init"
        /\ result[q].value.comp = result[p].comp + 1
        /\ fails[key[p]] = 1 /\ cancels[key[p]] = 0

\* C3: when the init future for a key fails, every caller reading its waiter is
\* handed that same failure (wrapped in DatabaseArc), returns it as its own
\* result, and ran no query and started no computation of its own.
FailureShared ==
    [][\A p \in Procs :
        /\ Failing(p) =>
            \A q \in Attached(key[p]) :
                /\ pc'[q] = "waiting"
                /\ cell'[q].state = "Ready" /\ cell'[q].kind = "Err"
                /\ cell'[q].cause = result'[p].cause
                /\ cell'[q].comp = result'[p].comp
        /\ (pc[p] = "waiting" /\ cell[p].state = "Ready" /\ cell[p].kind = "Err"
              /\ pc'[p] \notin {"waiting", "idle"}) =>
            /\ pc'[p] = "done"
            /\ result'[p].kind = "Err" /\ result'[p].variant = "DatabaseArc"
            /\ result'[p].cause = cell[p].cause
            /\ result'[p].comp = cell[p].comp
            /\ trace'[p] = <<>>
            /\ execs' = execs
      ]_vars

\* one computation failed; the caller that ran it and the two that waited on it
\* all hold its failure
FailureSharedWitness ==
    \E k \in Keys, p \in Procs :
        /\ execs[k] = 1 /\ fails[k] = 1
        /\ Done(p) /\ result[p].kind = "Err" /\ result[p].via = "init"
        /\ \A q \in Procs : Done(q) /\ key[q] = k /\ result[q].kind = "Err"
                            /\ result[q].cause = result[p].cause /\ result[q].comp = 1
        /\ \A q \in Procs \ {p} : result[q].via = "waiter" /\ trace[q] = <<>>

ExpiryRespected ==
    [][\A p \in Procs :
        LET e == cache[key'[p]]
            stale == ~e.present \/ e.age >= 15 * 60 \/ e.idle >= 5 * 60
        IN
        /\ (pc[p] \in {"idle", "owner"} /\ pc'[p] = "done") =>
            /\ ~stale
            /\ result'[p].kind = "Ok" /\ result'[p].value = e.value
        /\ (pc[p] = "idle" /\ pc'[p] # "idle" /\ stale) =>
            pc'[p] = "miss" /\ result'[p].kind = "None"
        /\ (pc[p] = "owner" /\ pc'[p] # "owner" /\ stale) =>
            /\ pc'[p] \in InFlight
            /\ execs'[key[p]] = execs[key[p]] + 1
      ]_vars

\* an entry read every 225 seconds, never idle for 5 minutes, is refused 15
\* minutes after its insertion and is being computed again
ExpiryRespectedWitness ==
    \E p \in Procs :
        /\ pc[p] \in InFlight
        /\ cache[key[p]].present
        /\ cache[key[p]].age >= 15 * 60
        /\ cache[key[p]].idle < 5 * 60
        /\ execs[key[p]] = 2 /\ fails[key[p]] = 0

\* C6: fresh hit.  A call that finds an entry inserted less than 15 minutes ago
\* and read less than 5 minutes ago returns that entry's value at once: no
\* compute function is started and no store query is made.
FreshHit ==
    [][\A p \in Procs :
        LET e == cache[key'[p]] IN
        (pc[p] = "idle" /\ pc'[p] # "idle"
            /\ e.present /\ e.age < 15 * 60 /\ e.idle < 5 * 60) =>
            /\ pc'[p] = "done"
            /\ result'[p].kind = "Ok" /\ result'[p].value = e.value
            /\ execs' = execs
            /\ trace' = trace
      ]_vars

\* a call served from an entry that has aged but is not expired
FreshHitWitness ==
    \E p \in Procs :
        /\ Done(p) /\ result[p].kind = "Ok" /\ result[p].via = "hit"
        /\ cache[key[p]].age > 0
        /\ execs[key[p]] = 1

\* C7: no indefinite blocking.  When every task that can take a step is
\* eventually polled and every store call returns, every call ends: the caller
\* holds an outcome or has dropped the request.  A caller reading another
\* caller's waiter is released by that computation's success, failure or abort.
AlwaysReleased ==
    \A p \in Procs : (pc[p] \notin {"idle", "done"}) ~> (pc[p] \in {"idle", "done"})

\* a reader released by the abort of the computation it was waiting on
AlwaysReleasedWitness ==
    \E p \in Procs : pc[p] = "waiting" /\ cell[p].state = "EnclosingFutureAborted"

\* the rows the two queries of stats_for_user can see for identity id
InView(id) == \E r \in db.ranked : r.steam_id = id
Joined(id) == {x \in db.stats : x.steam_id = id /\ id \in db.names}

\* C8: fallback ranks.  When the ranked view has no row for the identity and
\* medic_stats joined with user_names has one, a value returned by
\* stats_for_user carries that row's counters, and each of its four ranks is
\* 1 + the number of rows of the ranked set with more than 100 drops whose
\* metric is strictly greater; so the rank depends on the metric alone, and the
\* player gets the rank this count gives to a qualifying row equal on the metric.
\* Without a store fault the call does return such a value.
FallbackRanks ==
    \A p \in Procs :
        (Done(p) /\ key[p].cache = "player" /\ ~InView(key[p].steam_id)
                 /\ Joined(key[p].steam_id) # {}) =>
            /\ result[p].kind = "Err" => result[p].cause = "Fault"
            /\ result[p].kind = "Ok" =>
                \E x \in Joined(key[p].steam_id) :
                    LET d == result[p].value.data
                        Above(metric, v) ==
                            {m \in db.ranked : m.drops > 100 /\ m[metric] > v}
                    IN
                    /\ d.steam_id = x.steam_id /\ d.name = NameOf(x.steam_id)
                    /\ d.games = x.games /\ d.ubers = x.ubers
                    /\ d.drops = x.drops /\ d.medic_time = x.medic_time
                    /\ d.drops_rank = 1 + Cardinality(Above("drops", x.drops))
                    /\ d.dpu_rank = 1 + Cardinality(Above("dpu", x.dpu))
                    /\ d.dps_rank = 1 + Cardinality(Above("dps", x.dps))
                    /\ d.dpg_rank = 1 + Cardinality(Above("dpg", x.dpg))
                    /\ \A m \in db.ranked :
                        (m.drops > 100 /\ m.dps = x.dps) =>
                            d.dps_rank = 1 + Cardinality(Above("dps", m.dps))

\* the fallback ran for a player tied on drops-per-second with one qualifying
\* player and behind another: the rank is 2, the tie is not counted
FallbackRanksWitness ==
    \E p \in Procs :
        /\ Done(p) /\ result[p].kind = "Ok" /\ result[p].via = "init"
        /\ key[p].cache = "player" /\ ~InView(key[p].steam_id)
        /\ Len(trace[p]) = 2 /\ trace[p][2].outcome = "Row"
        /\ \E x \in Joined(key[p].steam_id), m, n \in db.ranked :
            /\ m.drops > 100 /\ m.dps = x.dps
            /\ n.drops > 100 /\ n.dps > x.dps
            /\ result[p].value.data.dps_rank = 2

\* C9 as stated: the second query of stats_for_user runs only after the first
\* reported that no row was found.
ExpensiveOnlyAfterAbsence ==
    \A p \in Procs :
        pc[p] = "expensive" => trace[p][1].outcome = "RowNotFound"

\* C10 as stated: a call that found no row in the view and none in the raw
\* table fails with UserNotFound.
AbsenceIsUserNotFound ==
    \A p \in Procs :
        (Done(p) /\ result[p].kind = "Err" /\ result[p].via = "init"
            /\ Len(trace[p]) = 2
            /\ trace[p][1].outcome = "RowNotFound" /\ trace[p][2].outcome = "RowNotFound") =>
            result[p].variant = "UserNotFound"

\* the store answered every query of the search so far
SearchUnfaulted == \A i \in DOMAIN search_log : search_log[i].outcome # "Fault"
SearchDone == search_pc = "done"

\* C11: exact-identity short-circuit.  When the text parses as an identity and
\* user_names holds a name for it, player_search returns exactly one result,
\* that identity with that name, count 1 and similarity 1.0, and the query on
\* medic_names is never issued, whatever rows medic_names would return; the
\* only other outcome is the error of a name lookup the store failed to answer.
ExactShortCircuit ==
    (Parses(search) /\ user_names[Parsed(search)] = "named") =>
        /\ \A i \in DOMAIN search_log : search_log[i].query # "medic_names"
        /\ search_pc # "wildcard"
        /\ SearchDone =>
            IF SearchUnfaulted
            THEN /\ search_result.kind = "Ok"
                 /\ Len(search_result.value) = 1
                 /\ search_result.value[1] =
                      [steam_id |-> Parsed(search), name |-> NameOf(Parsed(search)),
                       count |-> 1, sim |-> 100]
            ELSE search_result.kind = "Err"

\* the exact result was returned although the name history has matches, one of
\* them for the same identity
ExactShortCircuitWitness ==
    /\ SearchDone /\ search_result.kind = "Ok"
    /\ Parses(search) /\ user_names[Parsed(search)] = "named"
    /\ Len(medic_names) = MaxCandidates
    /\ \E i \in DOMAIN medic_names : medic_names[i].steam_id = Parsed(search)

\* C12 as stated: when the text parses and user_names has no row for the
\* identity, the search goes on to the wildcard path and does not fail.
ExactMissFallsThrough ==
    (SearchDone /\ Parses(search) /\ user_names[Parsed(search)] = "none" /\ SearchUnfaulted) =>
        /\ search_result.kind = "Ok"
        /\ \E i \in DOMAIN search_log : search_log[i].query = "medic_names"

\* the search ended in the wildcard path with a value
WildcardDone ==
    /\ SearchDone /\ search_result.kind = "Ok"
    /\ search_log[Len(search_log)].query = "medic_names"

\* the candidates of the example, as fetched (ORDER BY count DESC)
ExampleFetch ==
    <<SearchResult(2, "Foobar", 100, 50), SearchResult(1, "Foo", 5, 90),
      SearchResult(1, "foo", 1, 95)>>

\* (a) to (d) for the value out computed from the fetched rows
OrderedAndDeduped(out) ==
    LET W(r) == r.sim * 5 + r.count * 100
        At(r) == CHOOSE i \in DOMAIN medic_names : medic_names[i] = r
    IN
    /\ \A i \in 1..Len(out) - 1 : W(out[i]) >= W(out[i + 1])
    /\ \A i, j \in DOMAIN out : i # j => out[i].steam_id # out[j].steam_id
    /\ {out[i].steam_id : i \in DOMAIN out}
          = {medic_names[i].steam_id : i \in DOMAIN medic_names}
    /\ \A i \in DOMAIN out :
        /\ \E j \in DOMAIN medic_names : medic_names[j] = out[i]
        /\ \A j \in DOMAIN medic_names :
            medic_names[j].steam_id = out[i].steam_id =>
                \/ W(medic_names[j]) < W(out[i])
                \/ W(medic_names[j]) = W(out[i]) /\ At(out[i]) <= j
    /\ \A i, j \in DOMAIN out :
        i < j => \/ W(out[i]) > W(out[j])
                 \/ W(out[i]) = W(out[j]) /\ At(out[i]) < At(out[j])

\* C13 as stated: the result of the wildcard search (a) is in non-increasing
\* order of weight = similarity * 5 + count, (b) holds every identity of the
\* fetched rows exactly once, (c) holds for each identity its heaviest row, (d)
\* is a subsequence of the weight-sorted rows; and for the example the weights
\* of "Foo", "foo" and "Foobar" are 9.5, 5.75 and 52.5 and the result is the
\* row of identity 2, then "Foo".
SearchOrderedAsStated ==
    WildcardDone =>
        /\ OrderedAndDeduped(search_result.value)
        /\ medic_names = ExampleFetch =>
            /\ Weight(ExampleFetch[2]) = 950
            /\ Weight(ExampleFetch[3]) = 575
            /\ Weight(ExampleFetch[1]) = 5250
            /\ search_result.value = <<ExampleFetch[1], ExampleFetch[2]>>

\* C13, amended: (a) to (d) as stated (among rows of equal weight the one
\* fetched first comes first and is the one kept); for the example the weights
\* are 9.5, 5.75 and 102.5 (0.5 * 5 + 100), and the result is the row of
\* identity 2, then "Foo".
SearchOrdered ==
    WildcardDone =>
        /\ OrderedAndDeduped(search_result.value)
        /\ medic_names = ExampleFetch =>
            /\ Weight(ExampleFetch[2]) = 950
            /\ Weight(ExampleFetch[3]) = 575
            /\ Weight(ExampleFetch[1]) = 10250
            /\ search_result.value = <<ExampleFetch[1], ExampleFetch[2]>>

\* the row fetched first weighs 8.0, the two rows of identity 1 behind it weigh
\* 9.5 each: the result puts the first of these two in front and drops the other
SearchOrderedWitness ==
    /\ WildcardDone
    /\ medic_names = <<SearchResult(3, "Fool", 7, 20), SearchResult(1, "FOO", 6, 70),
                       SearchResult(1, "Foo", 5, 90)>>
    /\ search_result.value = <<SearchResult(1, "FOO", 6, 70), SearchResult(3, "Fool", 7, 20)>>
\* ------------------------------------------------------------- vanity properties
VanityEnded(n) == vanity_log[n].result.kind # "None"

\* m is the first call after n for n's token
VanityNextCall(n, m) ==
    /\ n < m /\ vanity_log[m].url = vanity_log[n].url
    /\ \A k \in DOMAIN vanity_log : (n < k /\ k < m) => vanity_log[k].url # vanity_log[n].url

\* C14 as stated: a call made while the table holds a row of the token returns
\* that row's identity, does not invoke the resolver and inserts nothing; this
\* holds of every such call, however many came before.
StoredNeverResolves ==
    \A n \in DOMAIN vanity_log :
        (vanity_log[n].stored /\ vanity_log[n].select # "-") =>
            /\ vanity_log[n].result = VanityOk(VanityFirst(vanity_log[n].url).steam_id)
            /\ vanity_log[n].resolve = "-"
            /\ vanity_log[n].insert = "-"

\* C15: a call for a token without a row to which the resolver answers "no
\* match" returns Ok(None) and inserts nothing: the table holds no row of the
\* token afterwards, and every later call for the token that has ended has
\* invoked the resolver again.
MissNotStored ==
    \A n \in DOMAIN vanity_log :
        vanity_log[n].resolve = "None" =>
            /\ vanity_log[n].result = VanityOk(0)
            /\ vanity_log[n].insert = "-"
            /\ VanityRowsOf(vanity_log[n].url) = {}
            /\ \A m \in DOMAIN vanity_log :
                (n < m /\ vanity_log[m].url = vanity_log[n].url /\ VanityEnded(m)) =>
                    vanity_log[m].resolve # "-"

\* two calls for a token the resolver does not know, one after the other ended:
\* both asked the resolver and returned Ok(None)
MissNotStoredWitness ==
    /\ Len(vanity_log) = 2
    /\ \A n \in DOMAIN vanity_log :
        /\ vanity_log[n].alone /\ ~vanity_log[n].stored
        /\ vanity_log[n].resolve = "None"
        /\ vanity_log[n].result = VanityOk(0)
    /\ vanity_log[1].url = vanity_log[2].url

\* C16 as stated, for calls that do not overlap any other call: a call for a
\* token without a row to which the resolver answers I, and whose INSERT the
\* store executes, inserts the row and returns I; the next call for the token
\* returns I and does not invoke the resolver.
HitStoredOnce ==
    \A n \in DOMAIN vanity_log :
        (/\ vanity_log[n].alone /\ ~vanity_log[n].stored
         /\ vanity_log[n].resolve = "Some"
         /\ vanity_log[n].insert \notin {"-", "Fault"}) =>
            /\ vanity_log[n].insert = "Inserted"
            /\ vanity_log[n].result = VanityOk(vanity_log[n].id)
            /\ \A m \in DOMAIN vanity_log :
                (VanityNextCall(n, m) /\ vanity_log[m].alone /\ VanityEnded(m)) =>
                    /\ vanity_log[m].result = VanityOk(vanity_log[n].id)
                    /\ vanity_log[m].resolve = "-"

\* C17 as stated: of the calls for one token without a row that overlap, at
\* most one invokes the resolver, at most one inserts a row, and each that has
\* ended returned the identity.
VanitySingleFlight ==
    \A url \in VanityTokens :
        LET together == {n \in DOMAIN vanity_log :
                            /\ vanity_log[n].url = url
                            /\ ~vanity_log[n].stored /\ ~vanity_log[n].alone}
        IN
        (Cardinality(together) > 1 /\ SteamApi(url) # 0) =>
            /\ Cardinality({n \in together : vanity_log[n].resolve # "-"}) <= 1
            /\ Cardinality({n \in together : vanity_log[n].insert = "Inserted"}) <= 1
            /\ \A n \in together :
                VanityEnded(n) => vanity_log[n].result = VanityOk(SteamApi(url))

\* C18: the step in which the resolver fails ends the call with
\* DropsError::Steam, which is not Ok(None), and leaves the table as it was;
\* the call has executed no INSERT.
ResolverFailureIsError ==
    [][\A p \in VanityProcs :
        (vanity_pc[p] = "resolve" /\ vanity_pc'[p] # "resolve"
            /\ vanity_log'[vanity_call[p]].resolve = "Failure") =>
            /\ vanity_log'[vanity_call[p]].result = VanityErr("Steam")
            /\ vanity_log'[vanity_call[p]].result # VanityOk(0)
            /\ vanity_log'[vanity_call[p]].insert = "-"
            /\ vanity_urls' = vanity_urls
            /\ vanity_pc'[p] = "idle"]_vars

\* a call for a known name ended on a failure of the resolver, the table empty
ResolverFailureIsErrorWitness ==
    \E n \in DOMAIN vanity_log :
        /\ vanity_log[n].resolve = "Failure"
        /\ vanity_log[n].url = "gabe"
        /\ vanity_log[n].result = VanityErr("Steam")
        /\ vanity_urls = <<>>
\* ------------------------------------------------------------- identity properties
\* C19 as stated: for every text that from_str accepts, from_str of the steam3
\* rendering of the identity gives the same identity; the identity's number,
\* made an identity again, is the same identity, and that identity's number is
\* the same number.
IdRoundTrips ==
    /\ id_pc \in {"again", "number", "done"} => id_again = id_parsed
    /\ id_pc = "done" => (id_back = id_parsed /\ IntoU64(id_back) = id_u64)
SingleFallbackHop ==
    \A p \in Procs :
        /\ pc[p] = "cheap" => trace[p] = <<>>
        /\ pc[p] = "expensive" =>
            /\ Len(trace[p]) = 1
            /\ trace[p][1].query = "cheap" /\ trace[p][1].outcome # "Row"
        /\ (Done(p) /\ key[p].cache = "player" /\ result[p].via = "init") =>
            /\ Len(trace[p]) \in {1, 2}
            /\ trace[p][1].query = "cheap"
            /\ Len(trace[p]) = 1 => trace[p][1].outcome = "Row"
            /\ Len(trace[p]) = 2 =>
                /\ trace[p][1].outcome # "Row"
                /\ trace[p][2].query = "expensive"
        /\ (Done(p) /\ key[p].cache = "player" /\ result[p].via # "init") => trace[p] = <<>>

\* a computation that ended with the second query's fault, after the view had
\* no row
SingleFallbackHopWitness ==
    \E p \in Procs :
        /\ Done(p) /\ key[p].cache = "player" /\ result[p].via = "init"
        /\ Len(trace[p]) = 2
        /\ trace[p][1].outcome = "RowNotFound" /\ trace[p][2].outcome = "Fault"

\* the four ranks of a value
Ranks(d) == {d.drops_rank, d.dpu_rank, d.dps_rank, d.dpg_rank}

\* C27: rank bounds.  Every rank in a value that the second query of
\* stats_for_user computed is at least 1 and at most Q + 1, Q being the number
\* of rows of the ranked set with more than 100 drops; and a rank is 1 exactly
\* when no such row has a strictly greater value of the metric than the player.
RankBounds ==
    \A p \in Procs :
        (/\ Done(p) /\ key[p].cache = "player"
         /\ result[p].kind = "Ok" /\ result[p].via = "init"
         /\ Len(trace[p]) = 2) =>
            LET d == result[p].value.data
                Qualifying == {m \in db.ranked : m.drops > 100}
            IN
            /\ \A r \in Ranks(d) : r \in 1..(Cardinality(Qualifying) + 1)
            /\ \E x \in Joined(key[p].steam_id) :
                /\ d.drops_rank = 1 <=> ~\E m \in Qualifying : m.drops > x.drops
                /\ d.dpu_rank = 1 <=> ~\E m \in Qualifying : m.dpu > x.dpu
                /\ d.dps_rank = 1 <=> ~\E m \in Qualifying : m.dps > x.dps
                /\ d.dpg_rank = 1 <=> ~\E m \in Qualifying : m.dpg > x.dpg

\* the second query ranked a player behind the one qualifying row and ahead of
\* a row at the threshold that has the better drops-per-uber: ranks 2 and 1
RankBoundsWitness ==
    \E p \in Procs :
        /\ Done(p) /\ key[p].cache = "player"
        /\ result[p].kind = "Ok" /\ result[p].via = "init" /\ Len(trace[p]) = 2
        /\ Cardinality({m \in db.ranked : m.drops > 100}) = 1
        /\ \E m \in db.ranked : m.drops = 100 /\ \A x \in Joined(key[p].steam_id) : m.dpu > x.dpu
        /\ result[p].value.data.drops_rank = 2
        /\ result[p].value.data.dpu_rank = 1

\* C23 as stated: a call whose SELECT the store failed to answer returns a
\* store error; it does not invoke the resolver and executes no INSERT.
SelectFaultPropagates ==
    \A n \in DOMAIN vanity_log :
        vanity_log[n].select = "Fault" =>
            /\ vanity_log[n].result = VanityErr("Database")
            /\ vanity_log[n].resolve = "-"
            /\ vanity_log[n].insert = "-"

\* C25: a call that returned an identity leaves a row of its token with that
\* identity in the table; a call that invoked the resolver returned the
\* identity only with its INSERT executed, and a call whose INSERT failed
\* returned a store error.
ReturnedIsStored ==
    \A n \in DOMAIN vanity_log :
        LET call == vanity_log[n] IN
        /\ (call.result.kind = "Ok" /\ call.result.value # 0) =>
            /\ \E i \in VanityRowsOf(call.url) : vanity_urls[i].steam_id = call.result.value
            /\ call.resolve # "-" => (call.insert = "Inserted" /\ call.result.value = call.id)
        /\ call.insert \in {"Fault", "UniqueViolation"} => call.result = VanityErr("Database")

\* one call returned the resolver's identity with its row inserted, another lost
\* the identity the resolver gave it to a failed INSERT
ReturnedIsStoredWitness ==
    \E n, m \in DOMAIN vanity_log :
        /\ vanity_log[n].resolve = "Some" /\ vanity_log[n].insert = "Inserted"
        /\ vanity_log[n].result = VanityOk(vanity_log[n].id)
        /\ vanity_log[m].resolve = "Some" /\ vanity_log[m].insert = "Fault"
        /\ vanity_log[m].result = VanityErr("Database")

\* C24: a step of a call for one key leaves every other key's entry, waiter and
\* counters as they were and touches no caller of another key; the clock removes
\* and replaces nothing; a caller waits only on a computation of its own key; a
\* top_stats computation issues one query, the one of its ordering
KeyIndependence ==
    [][LET ActedKey(p) == IF pc[p] = "idle" THEN key'[p] ELSE key[p] IN
       /\ \A p \in Procs : pc'[p] # pc[p] =>
            /\ \A j \in DOMAIN cache \ {ActedKey(p)} :
                /\ cache'[j] = cache[j]
                /\ waiters'[j] = waiters[j]
                /\ execs'[j] = execs[j]
                /\ fails'[j] = fails[j]
            /\ \A q \in Procs \ {p} :
                /\ pc'[q] = pc[q]
                /\ key[q] # ActedKey(p) => cell'[q] = cell[q] /\ result'[q] = result[q]
       /\ \A j \in DOMAIN cache :
            /\ cache'[j].present = cache[j].present
                    \/ \E p \in Procs : pc'[p] # pc[p] /\ ActedKey(p) = j
            /\ (cache[j].present /\ pc' = pc) =>
                    cache'[j].present /\ cache'[j].value = cache[j].value
       /\ \A q \in Procs :
            (pc'[q] = "waiting" /\ cell'[q] = Computing) =>
                /\ waiters'[key'[q]] \in Procs \ {q}
                /\ key'[waiters'[key'[q]]] = key'[q]
                /\ pc'[waiters'[key'[q]]] \in {"owner", "query", "cheap", "expensive"}
       /\ \A q \in Procs :
            (pc'[q] = "done" /\ key'[q].cache = "top") =>
                IF result'[q].via = "init"
                THEN Len(trace'[q]) = 1 /\ trace'[q][1].query = key'[q].order
                ELSE trace'[q] = <<>>
      ]_vars

\* one key's computation is in flight, not yet inserted, while a request for
\* another key has computed and inserted its own entry
KeyIndependenceWitness ==
    \E p, q \in Procs :
        /\ key[p] # key[q]
        /\ pc[p] \in {"query", "cheap", "expensive"}
        /\ waiters[key[p]] = p
        /\ ~cache[key[p]].present
        /\ pc[q] = "done" /\ result[q].kind = "Ok" /\ result[q].via = "init"
        /\ key[q].cache = "top"
        /\ cache[key[q]].present

\* C22 as stated: a failure of stats_for_user caused by a fault of the store is
\* answered with a server fault (500), and UserNotFound (404) is the answer only
\* where the store has no stats row of the player
FaultIsNotAbsence ==
    LET PageLookups == Len(vanity_log) - page.lookups
        PageStats == calls - page.stats
        Responded == page.pc = "responded"
    IN
    (Responded /\ PageStats = 1 /\ pc[1] = "done" /\ result[1].kind = "Err") =>
        /\ result[1].cause = "Fault" =>
                page.response.status = 500 /\ page.response.variant # "UserNotFound"
        /\ page.response.variant = "UserNotFound" =>
                CheapRows(db, page.id) \cup ExpensiveRows(db, page.id) = {}

\* C26: a text that parses never reaches the vanity store or the resolver; a
\* text that does not parse goes to resolve_vanity_url, once; "not found" is
\* answered with the parse error (400) and an error with that error, in both
\* cases without a call of stats_for_user; stats_for_user is called at most
\* once, with the parsed or the resolved identity
ResolutionOrder ==
    LET PageLookups == Len(vanity_log) - page.lookups
        PageStats == calls - page.stats
        Responded == page.pc = "responded"
    IN
    page.pc # "idle" =>
        /\ PageLookups \in {0, 1} /\ PageStats \in {0, 1}
        /\ Parses(page.text) => PageLookups = 0 /\ page.id = Parsed(page.text)
        /\ PageLookups = 1 =>
                ~Parses(page.text) /\ vanity_log[page.lookups + 1].url = page.text
        /\ (~Parses(page.text) /\ (page.pc = "stats" \/ PageStats = 1)) =>
                PageLookups = 1 /\ page.id # 0 /\ PageLookup = VanityOk(page.id)
        /\ (~Parses(page.text) /\ Responded) => PageLookups = 1
        /\ (PageStats = 1 /\ pc[1] # "idle") => key[1] = PlayerKey(page.id)
        /\ (Responded /\ PageLookups = 1 /\ PageLookup = VanityOk(0)) =>
                /\ page.response.variant = "SteamId" /\ page.response.status = 400
                /\ PageStats = 0
        /\ (Responded /\ PageLookups = 1 /\ PageLookup.kind = "Err") =>
                /\ page.response.kind = "Err" /\ page.response.variant = PageLookup.variant
                /\ PageStats = 0

\* a name the resolver does not know was answered with the parse error
ResolutionOrderWitness ==
    LET PageLookups == Len(vanity_log) - page.lookups
        PageStats == calls - page.stats
        Responded == page.pc = "responded"
    IN
    /\ Responded /\ ~Parses(page.text)
    /\ PageLookups = 1 /\ PageLookup = VanityOk(0)
    /\ page.response.status = 400
    /\ PageStats = 0
====
